---- MODULE Spec2Model ----
(***************************************************************************)
(* Medilog: the per-person record stores, the shared medication catalog,   *)
(* their persistence, the service handlers in front of them and the        *)
(* one-shot medication migration.                                          *)
(*                                                                         *)
(* Python values are modelled as follows: None is the string None below,   *)
(* str values are TLA+ strings, floats are opaque strings ("1.0"), a dict  *)
(* is a TLA+ record whose DOMAIN is its key set, a list is a sequence.     *)
(* A file is a set holding at most one JSON document (empty: no file).     *)
(***************************************************************************)
EXTENDS Integers, Sequences, FiniteSets, TLC

\* ------------------------------------------------------------------ bounds
\* how many ids uuid.uuid4() hands out in one behaviour of a store
MaxUuid == 3
\* the same for the behaviours that join the catalog and the record stores
MaxServiceUuid == 2
\* how many saves may be suspended (between their awaits) at the same time
MaxInFlight == 2
\* how many times a migration may be cut short (the process stops, or a
\* save raises) before it is left to run to its end
MaxRestarts == 2
\* ids handed out and saves suspended in the behaviours of the handlers that
\* are followed for their failures
MaxHandlerUuid == 2
MaxHandlerInFlight == 1
\* how many service calls are followed after one setup, how many ids may
\* be out when one of them generates another, and how many times the process
\* stops or a setup fails
MaxSetupCalls == 1
MaxSetupUuid == 3
MaxSetupStops == 1

\* ------------------------------------------------------------ value domain
None == "<None>"

\* the tracked persons (config_entry.options[CONF_PERSON_LIST])
Persons == {"person.a", "person.b"}
\* what a caller may pass as person_id: a tracked person or some other string
PersonInputs == Persons \cup {"person.x"}
CATALOG == "medications.json"
Stores == Persons \cup {CATALOG}

Uuids == <<"u1", "u2", "u3", "u4", "u5", "u6", "u7", "u8">>
\* uuid.uuid4().hex when n ids were generated before: never a value seen before
uuid4(n) == Uuids[n + 1]
Generated(n) == {Uuids[i] : i \in 1..n}

\* cv.string lets every str through, the empty one included; a caller knows
\* the ids generated so far and can make up others
StringInputs(n) == {"", "ghost"} \cup Generated(n)
\* call.data.get(key): None when the optional key was left out
OptionalInputs(n) == {None} \cup StringInputs(n)

Names == {"Aspirin", "Ibalgin"}

\* Python truthiness of a str-or-None value
Truthy(v) == v # None /\ v # ""

\* dict.get(key) with the default None
Get(d, k) == IF k \in DOMAIN d THEN d[k] ELSE None

\* dict with the keys of upd assigned (d[k] = v for each), other keys kept
SetKeys(d, upd) ==
  [k \in DOMAIN d \cup DOMAIN upd |-> IF k \in DOMAIN upd THEN upd[k] ELSE d[k]]

\* the first index whose element has e[key] = v, 0 when there is none
FirstIndex(list, key, v) ==
  IF \E i \in 1..Len(list) : Get(list[i], key) = v
  THEN CHOOSE i \in 1..Len(list) :
         /\ Get(list[i], key) = v
         /\ \A j \in 1..(i - 1) : Get(list[j], key) # v
  ELSE 0

\* the elements of a list
Range(seq) == {seq[i] : i \in 1..Len(seq)}

\* [e for e in list if e.get("id") != id]
WithoutId(list, id) == SelectSeq(list, LAMBDA e : Get(e, "id") # id)

\* --------------------------------------------------- storage.py (pure part)
\* The record the "not updated" branch builds.
new_record(id, record_datetime, temperature, medication_id, medication_amount, note) ==
  [id |-> id, datetime |-> record_datetime, temperature |-> temperature,
   medication_id |-> medication_id, medication_amount |-> medication_amount,
   note |-> note]

\* Mutant of add_or_update_record: the new record goes to the end of the list
\* (append instead of insert(0, ...)).
add_or_update_record_appends(recs, id, record_datetime, temperature, medication_id, medication_amount, note, fresh) ==
  LET i == FirstIndex(recs, "id", id)
  IN  IF i # 0
      THEN [recs EXCEPT ![i] = SetKeys(@,
              [datetime |-> record_datetime, temperature |-> temperature,
               medication_id |-> medication_id,
               medication_amount |-> medication_amount, note |-> note])]
      ELSE Append(recs, new_record(fresh, record_datetime, temperature,
                                   medication_id, medication_amount, note))

\* Mutant of add_or_update_record: the new id is derived from the number of
\* records instead of uuid4.
add_or_update_record_counts(recs, id, record_datetime, temperature, medication_id, medication_amount, note, fresh) ==
  LET i == FirstIndex(recs, "id", id)
  IN  IF i # 0
      THEN [recs EXCEPT ![i] = SetKeys(@,
              [datetime |-> record_datetime, temperature |-> temperature,
               medication_id |-> medication_id,
               medication_amount |-> medication_amount, note |-> note])]
      ELSE <<new_record(Uuids[Len(recs) + 1], record_datetime, temperature,
                        medication_id, medication_amount, note)>> \o recs

\* The list after async_add_or_update_record's loop and insert; fresh is the
\* value uuid4 returns if it gets called.
add_or_update_record(recs, id, record_datetime, temperature, medication_id, medication_amount, note, fresh) ==
  LET i == FirstIndex(recs, "id", id)
  IN  IF i # 0
      THEN [recs EXCEPT ![i] = SetKeys(@,
              [datetime |-> record_datetime, temperature |-> temperature,
               medication_id |-> medication_id,
               medication_amount |-> medication_amount, note |-> note])]
      ELSE <<new_record(fresh, record_datetime, temperature, medication_id,
                        medication_amount, note)>> \o recs

\* Whether the loop of async_add_or_update_record found the record.
record_updated(recs, id) == FirstIndex(recs, "id", id) # 0

\* ------------------------------------------ medication_storage.py (pure part)
get_medication_index(meds, medication_id) == FirstIndex(meds, "id", medication_id)

medication_exists(meds, medication_id) == get_medication_index(meds, medication_id) # 0

\* Mutant of is_medication_name_unique: the check is made for new entries only.
is_medication_name_unique_new_only(meds, name, exclude_id) ==
  \/ exclude_id # None
  \/ ~ \E i \in 1..Len(meds) : Get(meds[i], "name") = name

\* Mutant of is_medication_name_unique: exclude_id is ignored.
is_medication_name_unique_no_exclude(meds, name, exclude_id) ==
  ~ \E i \in 1..Len(meds) : Get(meds[i], "name") = name

is_medication_name_unique(meds, name, exclude_id) ==
  ~ \E i \in 1..Len(meds) :
      Get(meds[i], "name") = name /\ Get(meds[i], "id") # exclude_id

\* How async_add_or_update_medication ends: the ValueError it raises, or the
\* branch it took.
add_or_update_medication_outcome(meds, id, name) ==
  IF ~ is_medication_name_unique(meds, name, id) THEN "duplicate_name"
  ELSE IF Truthy(id)
       THEN IF get_medication_index(meds, id) # 0 THEN "updated" ELSE "not_found"
       ELSE "created"

\* The list async_add_or_update_medication leaves in self.data["medications"].
add_or_update_medication(meds, id, name, units, is_antipyretic, active_ingredient, fresh) ==
  LET outcome == add_or_update_medication_outcome(meds, id, name)
      i == get_medication_index(meds, id)
  IN  CASE outcome = "updated" ->
             [meds EXCEPT ![i] = SetKeys(@,
                [name |-> name, units |-> units, is_antipyretic |-> is_antipyretic,
                 active_ingredient |-> active_ingredient])]
        [] outcome = "created" ->
             Append(meds, [id |-> fresh, name |-> name, units |-> units,
                           is_antipyretic |-> is_antipyretic,
                           active_ingredient |-> active_ingredient])
        [] OTHER -> meds

\* -------------------------------------------------- coordinator.py (pure part)
\* Mutant of is_medication_in_use: the loop returns after the first storage.
is_medication_in_use_first_store(recstores, medication_id) ==
  \E i \in 1..Len(recstores["person.a"]) :
     Get(recstores["person.a"][i], "medication_id") = medication_id

is_medication_in_use(recstores, medication_id) ==
  \E p \in DOMAIN recstores : \E i \in 1..Len(recstores[p]) :
     Get(recstores[p][i], "medication_id") = medication_id

\* the datetime strings the requests use, in the order Python gives str
\* values (by code point)
StringOrder ==
  <<"2023-12-24T18:00:00", "2024-01-01T10:00:00", "2024-01-02T08:30:00">>

\* a < b for two str values
str_lt(a, b) ==
  \E i, j \in 1..Len(StringOrder) :
     StringOrder[i] = a /\ StringOrder[j] = b /\ i < j

\* the key of max in get_person_list: x.get("datetime", 0)
datetime_key(record) ==
  IF "datetime" \in DOMAIN record THEN record.datetime ELSE 0

\* whether max can compare the keys of two records: two str values, or two
\* defaults
comparable(a, b) ==
  \/ "datetime" \notin DOMAIN a /\ "datetime" \notin DOMAIN b
  \/ /\ "datetime" \in DOMAIN a /\ "datetime" \in DOMAIN b
     /\ a.datetime # None /\ b.datetime # None

\* Mutant of recent_record: the record at the front of the list.
recent_record_front(recs) == IF recs = <<>> THEN None ELSE recs[1]

\* max(records, key=..., default=None) if records else None: the first
\* record no other record is greater than
recent_record(recs) ==
  IF recs = <<>> THEN None
  ELSE recs[CHOOSE i \in 1..Len(recs) :
              /\ \A j \in 1..Len(recs) :
                    ~ str_lt(datetime_key(recs[i]), datetime_key(recs[j]))
              /\ \A j \in 1..(i - 1) :
                    str_lt(datetime_key(recs[j]), datetime_key(recs[i]))]

\* what get_person_list raises, None when it returns: max raises TypeError
\* when it compares a str with the default 0 or with None
get_person_list_raises(recstores) ==
  IF \E p \in DOMAIN recstores : \E i, j \in 1..Len(recstores[p]) :
        i # j /\ ~ comparable(recstores[p][i], recstores[p][j])
  THEN "TypeError"
  ELSE None

\* MedilogCoordinator.get_person_list: one element per storage, in the order
\* of person_storages
get_person_list(recstores) ==
  [i \in 1..Len(<<"person.a", "person.b">>) |->
     [entity |-> <<"person.a", "person.b">>[i],
      recent_record |-> recent_record(recstores[<<"person.a", "person.b">>[i]])]]

\* How async_delete_medication ends, given the answer of check_usage_callback.
delete_medication_outcome(meds, medication_id, in_use) ==
  IF in_use THEN "in_use"
  ELSE IF Len(WithoutId(meds, medication_id)) = Len(meds) THEN "not_found"
  ELSE "deleted"

\* -------------------------------------------------------------------- state
VARIABLES
  medications,   \* MedicationStorage.data["medications"]
  records,       \* person -> MedilogStorage.data["records"]
  files,         \* store -> the backing file: {} or {document}
  migration_flag,\* whether .migration_complete exists
  saving,        \* store -> how many async_save calls wait at each await
  uuid,          \* how many ids uuid4 has generated
  mig,           \* _async_migrate_medications: where it is and its locals
  last,          \* what the step just taken was and how it ended
  setup,         \* async_setup_entry: where it is, and the registered services
  notified,      \* the on_change_callback calls the step just taken made
  writers        \* store -> the save_data threads that have the file open

vars == <<medications, records, files, migration_flag, saving, uuid, mig, last,
          setup, notified, writers>>

\* a step that calls no on_change_callback and in which no save_data thread
\* moves
Quiet == notified' = <<>> /\ UNCHANGED writers

\* ------------------------------------------------------- json.dump, json.load
\* The content of a file is the JSON value its text denotes: null, a string,
\* a number (kept as the text repr() gives it), true/false, an array, an
\* object; or it is text json.load cannot parse, or bytes that are not UTF-8.
JsonNull == [json |-> "null"]
JsonString(str) == [json |-> "string", s |-> str]
JsonNumber(repr) == [json |-> "number", repr |-> repr]
JsonBool(b) == [json |-> IF b THEN "true" ELSE "false"]
JsonArray(items) == [json |-> "array", items |-> items]
JsonObject(members) == [json |-> "object", members |-> members]
NotJson == [json |-> "invalid"]
\* a file of no bytes, as open("w") leaves it
EmptyFile == [json |-> "empty"]
NotUtf8 == [json |-> "undecodable"]

\* the keys under which the program keeps a float, and a bool
FloatKeys == {"temperature", "medication_amount"}
BoolKeys == {"is_antipyretic"}

\* json.dump of the value kept under key k: None, a float, a bool or a str
json_dump_value(k, v) ==
  IF k \in BoolKeys THEN JsonBool(v)
  ELSE IF v = None THEN JsonNull
  ELSE IF k \in FloatKeys THEN JsonNumber(v)
  ELSE JsonString(v)

\* json.dump of a list of records or of catalog entries
json_dump_list(list) ==
  JsonArray([i \in 1..Len(list) |->
     JsonObject([k \in DOMAIN list[i] |-> json_dump_value(k, list[i][k])])])

\* json.load of parseable text: the Python value of a JSON value
RECURSIVE json_loads(_)
json_loads(j) ==
  CASE j.json = "null" -> None
    [] j.json = "string" -> j.s
    [] j.json = "number" -> j.repr
    [] j.json = "true" -> TRUE
    [] j.json = "false" -> FALSE
    [] j.json = "array" -> [i \in 1..Len(j.items) |-> json_loads(j.items[i])]
    [] j.json = "object" -> [k \in DOMAIN j.members |-> json_loads(j.members[k])]

\* what load_data raises on a file, None when it returns
load_data_raises(content) ==
  CASE content.json \in {"invalid", "empty"} -> "JSONDecodeError"
    [] content.json = "undecodable" -> "UnicodeDecodeError"
    [] OTHER -> None

\* the document json.dump writes for a store
Document(s, meds, recs) ==
  IF s = CATALOG THEN JsonObject([medications |-> json_dump_list(meds)])
  ELSE JsonObject([entity |-> JsonString(s), records |-> json_dump_list(recs[s])])

\* MedilogStorage.data after __init__
EmptyData(entity) == [entity |-> entity, records |-> <<>>]

\* what async_load raises to its caller, None when it returns: the except
\* clause takes JSONDecodeError and FileNotFoundError, and .get is called on
\* whatever json.load returned
async_load_raises(file) ==
  IF file = {} THEN None
  ELSE LET content == CHOOSE c \in file : TRUE
       IN  IF load_data_raises(content) = "JSONDecodeError" THEN None
           ELSE IF load_data_raises(content) # None THEN load_data_raises(content)
           ELSE IF content.json # "object" THEN "AttributeError"
           ELSE None

\* Mutant of async_load: the entity of the document is not looked at.
async_load_any_entity(entity, file, data) ==
  IF file = {} THEN EmptyData(entity)
  ELSE LET content == CHOOSE c \in file : TRUE
       IN  IF load_data_raises(content) = "JSONDecodeError" THEN EmptyData(entity)
           ELSE IF async_load_raises(file) # None THEN data
           ELSE json_loads(content)

\* MedilogStorage.async_load: self.data when the call is over, data being
\* self.data when it began
async_load(entity, file, data) ==
  IF file = {} THEN EmptyData(entity)
  ELSE LET content == CHOOSE c \in file : TRUE
       IN  IF load_data_raises(content) = "JSONDecodeError" THEN EmptyData(entity)
           ELSE IF async_load_raises(file) # None THEN data
           ELSE IF Get(json_loads(content), "entity") = entity
                THEN json_loads(content)
                ELSE data

\* MedicationStorage.async_load: self.data["medications"] when the call is
\* over
async_load_medications(file, meds) ==
  IF file = {} THEN <<>>
  ELSE LET content == CHOOSE c \in file : TRUE
       IN  IF load_data_raises(content) = "JSONDecodeError" THEN <<>>
           ELSE IF load_data_raises(content) # None THEN meds
           ELSE IF content.json = "object" /\ "medications" \in DOMAIN content.members
                THEN json_loads(content).medications
                ELSE meds

InFlightOf(sv) == sv[CATALOG].backup + sv[CATALOG].write
                   + sv["person.a"].backup + sv["person.a"].write
                   + sv["person.b"].backup + sv["person.b"].write

\* async_save up to its first await: the exists() test picks the await it
\* suspends at.
BeginSave(s) ==
  /\ saving' = [saving EXCEPT ![s] =
        IF files[s] # {} THEN [@ EXCEPT !.backup = @ + 1]
        ELSE [@ EXCEPT !.write = @ + 1]]

\* async_save, the backup copy done (or failed, which is suppressed)
BackupDone(s) ==
  /\ saving[s].backup > 0
  /\ saving' = [saving EXCEPT ![s] = [backup |-> @.backup - 1, write |-> @.write + 1]]
  /\ last' = [op |-> "backup", outcome |-> "ok"]
  /\ UNCHANGED <<medications, records, files, migration_flag, uuid>>

\* Mutant of on_change_callback: the catalog passes its name as a record
\* store passes its entity.
on_change_callback_entity(s) == <<s>>

\* the arguments of the call of self.on_change_callback at the end of
\* async_save: self.entity in a record store, none in the catalog
on_change_callback(s) == IF s = CATALOG THEN <<>> ELSE <<s>>

\* async_save, save_data done: the file holds the document as it is now,
\* and on_change_callback runs
WriteDone(s) ==
  /\ saving[s].write > 0
  /\ saving' = [saving EXCEPT ![s] = [@ EXCEPT !.write = @ - 1]]
  /\ files' = [files EXCEPT ![s] = {Document(s, medications, records)}]
  /\ notified' = <<on_change_callback(s)>>
  /\ last' = [op |-> "write", outcome |-> "ok"]
  /\ UNCHANGED <<medications, records, migration_flag, uuid>>

\* Mutant of suppresses: the with block suppresses nothing.
suppresses_nothing(exception) == FALSE

\* contextlib.suppress(OSError) around the backup copy
suppresses(exception) == exception = "OSError"

\* what async_save raises to its caller, None when it returns, given what
\* the backup copy and save_data raise (None: nothing)
async_save_raises(backup_exception, write_exception) ==
  IF backup_exception # None /\ ~ suppresses(backup_exception)
  THEN backup_exception
  ELSE write_exception

\* async_save, shutil.copy2 raises OSError: suppressed, the save goes on to
\* save_data
BackupFailed(s) ==
  /\ saving[s].backup > 0
  /\ IF async_save_raises("OSError", None) = None
     THEN /\ saving' = [saving EXCEPT ![s] = [backup |-> @.backup - 1,
                                             write |-> @.write + 1]]
          /\ last' = [op |-> "backup", outcome |-> "suppressed"]
     ELSE /\ saving' = [saving EXCEPT ![s] = [@ EXCEPT !.backup = @ - 1]]
          /\ last' = [op |-> "backup",
                      outcome |-> async_save_raises("OSError", None)]
  /\ UNCHANGED <<medications, records, files, migration_flag, uuid>>

\* async_save, save_data raises OSError: the exception leaves async_save and
\* the mutator that awaited it; the callback does not run, the file is as it
\* was and self.data stays as the mutator left it
WriteFailed(s) ==
  /\ saving[s].write > 0
  /\ saving' = [saving EXCEPT ![s] = [@ EXCEPT !.write = @ - 1]]
  /\ last' = [op |-> "write", outcome |-> async_save_raises(None, "OSError")]
  /\ UNCHANGED <<medications, records, files, migration_flag, uuid>>

\* ---- save_data as the thread of asyncio.to_thread runs it, next to the
\* ---- event loop and to the save_data threads of other saves
\* the length of a text, counted in the items of its list: a record is
\* written with uuid4().hex as id and the same fields, so texts of as many
\* items are as long
text_len(content) ==
  IF content.json = "object"
  THEN IF "records" \in DOMAIN content.members
       THEN Len(content.members.records.items)
       ELSE Len(content.members.medications.items)
  ELSE IF "items" \in DOMAIN content THEN content.items ELSE 0

\* a text of n items whose head was overwritten by a shorter text: json.load
\* raises JSONDecodeError on it
Damaged(n) == [json |-> "invalid", items |-> n]

\* what the file holds after a thread flushes its text at offset 0 of the
\* file it opened earlier: f was opened with "w" and is not cut again at the
\* flush, so a longer text already in the file keeps its tail
flushed(text, file) ==
  IF file = {} THEN text
  ELSE LET content == CHOOSE c \in file : TRUE
       IN  IF text_len(text) >= text_len(content) THEN text
           ELSE Damaged(text_len(content))

\* with self.file_path.open("w"): the file is created or cut to no bytes
WriteOpens(s) ==
  /\ Len(writers[s]) < saving[s].write
  /\ files' = [files EXCEPT ![s] = {EmptyFile}]
  /\ writers' = [writers EXCEPT ![s] = Append(@, [dumped |-> FALSE, text |-> EmptyFile])]
  /\ last' = [op |-> "write", outcome |-> "opened"]
  /\ notified' = <<>>
  /\ UNCHANGED <<medications, records, migration_flag, saving, uuid>>

\* json.dump(self.data, f): the document as it is now goes to the buffer of f
WriteDumps(s) ==
  \E i \in 1..Len(writers[s]) :
    /\ ~writers[s][i].dumped
    /\ writers' = [writers EXCEPT ![s][i] =
          [dumped |-> TRUE, text |-> Document(s, medications, records)]]
    /\ last' = [op |-> "write", outcome |-> "dumped"]
    /\ notified' = <<>>
    /\ UNCHANGED <<medications, records, files, migration_flag, saving, uuid>>

\* the with block ends: the buffer is flushed and the file closed, the
\* thread is over, async_save goes on to on_change_callback and returns
WriteCloses(s) ==
  \E i \in 1..Len(writers[s]) :
    /\ writers[s][i].dumped
    /\ files' = [files EXCEPT ![s] = {flushed(writers[s][i].text, files[s])}]
    /\ writers' = [writers EXCEPT ![s] =
          SubSeq(@, 1, i - 1) \o SubSeq(@, i + 1, Len(@))]
    /\ saving' = [saving EXCEPT ![s] = [@ EXCEPT !.write = @ - 1]]
    /\ notified' = <<on_change_callback(s)>>
    /\ last' = [op |-> "write", outcome |-> "ok"]
    /\ UNCHANGED <<medications, records, migration_flag, uuid>>

\* ------------------------------------------------------- store operations
\* MedilogStorage.async_add_or_update_record up to the first await of its save
async_add_or_update_record(p, id, record_datetime, temperature, medication_id, medication_amount, note) ==
  /\ records' = [records EXCEPT ![p] =
        add_or_update_record(@, id, record_datetime, temperature, medication_id,
                             medication_amount, note, uuid4(uuid))]
  /\ IF record_updated(records[p], id)
     THEN UNCHANGED uuid
     ELSE uuid' = uuid + 1
  /\ BeginSave(p)
  /\ last' = [op |-> "add_or_update_record",
              outcome |-> IF record_updated(records[p], id) THEN "updated"
                          ELSE "created"]
  /\ UNCHANGED <<medications, files, migration_flag>>

\* Mutant of delete_record_outcome: not-found is raised for an empty list only.
delete_record_outcome_empty(recs, record_id) ==
  IF recs = <<>> THEN "not_found" ELSE "deleted"

\* How async_delete_record ends: the ValueError, or the save.
delete_record_outcome(recs, record_id) ==
  IF Len(WithoutId(recs, record_id)) = Len(recs) THEN "not_found" ELSE "deleted"

\* MedilogStorage.async_delete_record: raises ValueError when nothing matched,
\* else runs up to the first await of its save
async_delete_record(p, record_id) ==
  /\ records' = [records EXCEPT ![p] = WithoutId(@, record_id)]
  /\ IF delete_record_outcome(records[p], record_id) = "not_found"
     THEN UNCHANGED saving
     ELSE BeginSave(p)
  /\ last' = [op |-> "delete_record",
              outcome |-> delete_record_outcome(records[p], record_id)]
  /\ UNCHANGED <<medications, files, migration_flag, uuid>>

\* MedicationStorage.async_add_or_update_medication up to the first await of
\* its save, or up to the ValueError
async_add_or_update_medication(id, name, units, is_antipyretic, active_ingredient) ==
  LET outcome == add_or_update_medication_outcome(medications, id, name)
  IN  /\ last' = [op |-> "add_or_update_medication", outcome |-> outcome]
      /\ IF outcome = "created"
         THEN uuid' = uuid + 1
         ELSE UNCHANGED uuid
      /\ medications' = add_or_update_medication(medications, id, name, units,
                           is_antipyretic, active_ingredient, uuid4(uuid))
      /\ IF outcome \in {"created", "updated"}
         THEN BeginSave(CATALOG)
         ELSE UNCHANGED saving
      /\ UNCHANGED <<records, files, migration_flag>>

\* MedicationStorage.async_delete_medication with coordinator.is_medication_in_use
\* as check_usage_callback
async_delete_medication(medication_id) ==
  LET outcome == delete_medication_outcome(medications, medication_id,
                    is_medication_in_use(records, medication_id))
  IN  /\ medications' = IF outcome = "in_use" THEN medications
                        ELSE WithoutId(medications, medication_id)
      /\ IF outcome = "deleted" THEN BeginSave(CATALOG) ELSE UNCHANGED saving
      /\ last' = [op |-> "delete_medication", outcome |-> outcome]
      /\ UNCHANGED <<records, files, migration_flag, uuid>>

\* what async_create_medication_from_name returns: the id of the first entry
\* of this name, else the id of the entry it creates (fresh: what uuid4 gives)
create_medication_from_name_returns(meds, name, fresh) ==
  IF FirstIndex(meds, "name", name) # 0
  THEN Get(meds[FirstIndex(meds, "name", name)], "id")
  ELSE fresh

\* Mutant of async_create_medication_from_name: the entry is appended without
\* a look at the names the catalog has.
async_create_medication_from_name_appends(name) ==
  /\ medications' = Append(medications,
        [id |-> uuid4(uuid), name |-> name, units |-> None,
         is_antipyretic |-> FALSE, active_ingredient |-> None])
  /\ uuid' = uuid + 1
  /\ BeginSave(CATALOG)
  /\ last' = [op |-> "add_or_update_medication", outcome |-> "created"]
  /\ UNCHANGED <<records, files, migration_flag>>

\* MedicationStorage.async_create_medication_from_name: the id of the entry
\* with this name if there is one, else a minimal new entry
async_create_medication_from_name(name) ==
  IF FirstIndex(medications, "name", name) # 0
  THEN /\ last' = [op |-> "create_medication_from_name", outcome |-> "found"]
       /\ UNCHANGED <<medications, records, files, migration_flag, saving, uuid>>
  ELSE /\ async_add_or_update_medication(None, name, None, FALSE, None)

\* a call of MedilogStorage.async_load on the instance of person p, from its
\* exists() test to its return or to the exception that leaves it
StorageLoad(p) ==
  /\ records' = [records EXCEPT ![p] =
        async_load(p, files[p], [entity |-> p, records |-> @]).records]
  /\ last' = [op |-> "load",
              outcome |-> IF async_load_raises(files[p]) = None THEN "ok"
                          ELSE async_load_raises(files[p])]
  /\ UNCHANGED <<medications, files, migration_flag, saving, uuid>>

\* ------------------------------------------------- coordinator.py: migration
\* person_storages.values(): the stores in the order of the person list
PersonList == <<"person.a", "person.b">>

\* _async_migrate_medications not running; ran: whether a run of it has
\* reached its end (the "migration complete" log line) since startup.
\* Where a migration is followed, mig also keeps loaded, what the first
\* setup read from disk, and restarts, how often a run was cut short.
MigrationIdle(ran) ==
  [pc |-> "idle", medication_names |-> {}, medication_map |-> [n \in {} |-> None],
   storages |-> <<>>, ran |-> ran]

\* Mutant of collect_medication_names: only the first storage is scanned.
collect_medication_names_first(recstores) ==
  {Get(recstores["person.a"][i], "medication") :
      i \in 1..Len(recstores["person.a"])} \ {None, ""}

\* the set the first loop collects: every truthy record["medication"]
collect_medication_names(recstores) ==
  UNION {{Get(recstores[p][i], "medication") : i \in 1..Len(recstores[p])} :
            p \in DOMAIN recstores} \ {None, ""}

\* Mutant of migrate_record: the old field's text is kept as the reference.
migrate_record_names(record, medication_map) ==
  IF "medication" \in DOMAIN record
  THEN [k \in (DOMAIN record \cup {"medication_id"}) \ {"medication"} |->
          IF k = "medication_id"
          THEN (IF Truthy(record["medication"]) THEN record["medication"] ELSE None)
          ELSE record[k]]
  ELSE record

\* Mutant of migrate_record: a record without the old field loses its
\* reference.
migrate_record_resets(record, medication_map) ==
  IF "medication" \in DOMAIN record
  THEN LET old_name == record["medication"]
           medication_id == IF Truthy(old_name) /\ old_name \in DOMAIN medication_map
                            THEN medication_map[old_name]
                            ELSE None
       IN  [k \in (DOMAIN record \cup {"medication_id"}) \ {"medication"} |->
              IF k = "medication_id" THEN medication_id ELSE record[k]]
  ELSE [k \in DOMAIN record |-> IF k = "medication_id" THEN None ELSE record[k]]

\* one record after the body of the rewriting loop
migrate_record(record, medication_map) ==
  IF "medication" \in DOMAIN record
  THEN LET old_name == record["medication"]
           medication_id == IF Truthy(old_name) /\ old_name \in DOMAIN medication_map
                            THEN medication_map[old_name]
                            ELSE None
       IN  [k \in (DOMAIN record \cup {"medication_id"}) \ {"medication"} |->
              IF k = "medication_id" THEN medication_id ELSE record[k]]
  ELSE record

\* Mutant of needs_save: every storage is saved.
needs_save_always(recs) == TRUE

needs_save(recs) == \E i \in 1..Len(recs) : "medication" \in DOMAIN recs[i]

\* Mutant of MigrateBegin: the test of the flag file is missing.
MigrateBegin_unguarded ==
  /\ mig.pc = "idle"
  /\ last' = [op |-> "migrate", outcome |-> "started"]
  /\ mig' = [mig EXCEPT !.pc = "names",
                         !.medication_names = collect_medication_names(records),
                         !.medication_map = [n \in {} |-> None],
                         !.storages = PersonList]
  /\ UNCHANGED <<medications, records, files, migration_flag, saving, uuid>>
  /\ Quiet

\* the call: returns at once when the flag file exists, else collects the names
MigrateBegin ==
  /\ mig.pc = "idle"
  /\ IF migration_flag
     THEN /\ last' = [op |-> "migrate", outcome |-> "skipped"]
          /\ UNCHANGED mig
     ELSE /\ last' = [op |-> "migrate", outcome |-> "started"]
          /\ mig' = [mig EXCEPT !.pc = "names",
                                 !.medication_names = collect_medication_names(records),
                                 !.medication_map = [n \in {} |-> None],
                                 !.storages = PersonList]
  /\ UNCHANGED <<medications, records, files, migration_flag, saving, uuid>>
  /\ Quiet

\* one round of "for name in medication_names" (a set: any order), entered
\* once the save awaited in the round before is over
MigrateName ==
  /\ mig.pc = "names"
  /\ InFlightOf(saving) = 0
  /\ \E name \in mig.medication_names :
       LET i == FirstIndex(medications, "name", name)
           med_id == IF i # 0 THEN Get(medications[i], "id") ELSE uuid4(uuid)
       IN  /\ async_create_medication_from_name(name)
           /\ mig' = [mig EXCEPT !.medication_names = @ \ {name},
                                 !.medication_map = (name :> med_id) @@ @]
  /\ Quiet

\* one round of "for storage in person_storages.values()": every record that
\* has the old field is rewritten, then the storage is saved once
MigrateStorage ==
  /\ mig.pc = "names"
  /\ mig.medication_names = {}
  /\ mig.storages # <<>>
  /\ InFlightOf(saving) = 0
  /\ LET p == Head(mig.storages)
     IN  /\ records' = [records EXCEPT ![p] =
                          [i \in 1..Len(@) |-> migrate_record(@[i], mig.medication_map)]]
         /\ IF needs_save(records[p]) THEN BeginSave(p) ELSE UNCHANGED saving
         /\ mig' = [mig EXCEPT !.storages = Tail(@)]
         /\ last' = [op |-> "migrate_storage",
                     outcome |-> IF needs_save(records[p]) THEN "saved" ELSE "clean"]
  /\ UNCHANGED <<medications, files, migration_flag, uuid>>
  /\ Quiet

\* Mutant of MigrateFlag: the flag is touched before the storages are
\* rewritten.
MigrateFlag_early ==
  /\ mig.pc = "names"
  /\ mig.medication_names = {}
  /\ InFlightOf(saving) = 0
  /\ migration_flag' = TRUE
  /\ mig' = MigrationIdle(TRUE) @@ mig
  /\ last' = [op |-> "migrate", outcome |-> "complete"]
  /\ UNCHANGED <<medications, records, files, saving, uuid>>
  /\ Quiet

\* migration_flag.touch() and the return
MigrateFlag ==
  /\ mig.pc = "names"
  /\ mig.medication_names = {}
  /\ mig.storages = <<>>
  /\ InFlightOf(saving) = 0
  /\ migration_flag' = TRUE
  /\ mig' = MigrationIdle(TRUE) @@ mig
  /\ last' = [op |-> "migrate", outcome |-> "complete"]
  /\ UNCHANGED <<medications, records, files, saving, uuid>>
  /\ Quiet

\* a save awaited by the migration raises OSError from its primary write:
\* the exception leaves _async_migrate_medications and async_setup, the flag
\* is not touched and the file is as it was
MigrateSaveFails ==
  /\ mig.pc = "names"
  /\ mig.restarts < MaxRestarts
  /\ \E s \in Stores : saving[s].write > 0
  /\ saving' = [s \in Stores |-> [backup |-> 0, write |-> 0]]
  /\ mig' = [mig EXCEPT !.pc = "failed", !.restarts = @ + 1]
  /\ last' = [op |-> "migrate", outcome |-> "failed"]
  /\ UNCHANGED <<medications, records, files, migration_flag, uuid>>
  /\ Quiet

\* the process stops: whatever waits at an await is gone, the files stay
Stop ==
  /\ mig.pc \notin {"stopped", "failed"}
  /\ mig.restarts < MaxRestarts
  /\ saving' = [s \in Stores |-> [backup |-> 0, write |-> 0]]
  /\ mig' = [mig EXCEPT !.pc = "stopped", !.restarts = @ + 1]
  /\ last' = [op |-> "stop", outcome |-> "ok"]
  /\ UNCHANGED <<medications, records, files, migration_flag, uuid>>
  /\ Quiet

\* MedilogCoordinator.async_setup up to its call of the migration: new
\* storages, each loaded from its file
Setup ==
  /\ mig.pc \in {"stopped", "failed"}
  /\ \A s \in Stores : async_load_raises(files[s]) = None
  /\ medications' = async_load_medications(files[CATALOG], <<>>)
  /\ records' = [p \in Persons |-> async_load(p, files[p], EmptyData(p)).records]
  /\ mig' = MigrationIdle(FALSE) @@ mig
  /\ last' = [op |-> "setup", outcome |-> "ok"]
  /\ UNCHANGED <<files, migration_flag, saving, uuid>>
  /\ Quiet

\* --------------------------------------------------------- services.py
\* the exception a store method raises when it ends this way, None when it
\* returns: the raise ValueError statements, and OSError out of async_save
raised_by(outcome) ==
  CASE outcome \in {"duplicate_name", "not_found", "in_use"} -> "ValueError"
    [] outcome = "OSError" -> "OSError"
    [] OTHER -> None

\* Mutant of handler_catches: every handler has the except clause of
\* handle_add_or_update.
handler_catches_oserror(op) == {"OSError"}

\* the except clauses around the store call of the handler of a service
handler_catches(op) ==
  CASE op = "add_or_update_record" -> {"OSError"}
    [] op = "delete_record" -> {"ValueError", "OSError"}
    [] op = "add_or_update_medication" -> {"ValueError", "OSError"}
    [] op = "delete_medication" -> {"ValueError", "OSError"}
    [] OTHER -> {}

\* whether a service call that ended this way raised to the platform
handler_raises(op, outcome) ==
  raised_by(outcome) # None /\ raised_by(outcome) \notin handler_catches(op)

\* whether handle_add_or_update lets the request through to the store
add_or_update_check(meds, person_id, medication_id) ==
  IF Truthy(medication_id) /\ ~ medication_exists(meds, medication_id)
  THEN "unknown_medication"
  ELSE IF person_id \notin Persons THEN "no_storage"
  ELSE "ok"

handle_add_or_update(person_id, id, record_datetime, temperature, medication_id, medication_amount, note) ==
  LET check == add_or_update_check(medications, person_id, medication_id)
  IN  IF check # "ok"
      THEN /\ last' = [op |-> "add_or_update_record", outcome |-> check]
           /\ UNCHANGED <<medications, records, files, migration_flag, saving, uuid>>
      ELSE async_add_or_update_record(person_id, id, record_datetime,
              temperature, medication_id,
              IF medication_amount = None THEN "1.0" ELSE medication_amount,
              note)

handle_delete_record(person_id, id) ==
  IF person_id \notin Persons
  THEN /\ last' = [op |-> "delete_record", outcome |-> "no_storage"]
       /\ UNCHANGED <<medications, records, files, migration_flag, saving, uuid>>
  ELSE async_delete_record(person_id, id)

handle_add_or_update_medication(id, name, units, is_antipyretic, active_ingredient) ==
  async_add_or_update_medication(id, name, units, is_antipyretic, active_ingredient)

handle_delete_medication(id) == async_delete_medication(id)

\* ------------------------------------------------------------ request inputs
\* the fields a direct caller of the record store passes
RecordPayloads ==
  { [datetime |-> "2024-01-01T10:00:00", temperature |-> None,
     medication_id |-> None, medication_amount |-> "1.0", note |-> None],
    [datetime |-> "2024-01-02T08:30:00", temperature |-> "38.5",
     medication_id |-> "ghost", medication_amount |-> "2.0",
     note |-> "after lunch"] }

\* (units, is_antipyretic, active_ingredient) of a medication request
MedicationPayloads ==
  { [units |-> None, is_antipyretic |-> FALSE, active_ingredient |-> None],
    [units |-> "ml", is_antipyretic |-> TRUE, active_ingredient |-> "ibuprofen"] }

\* ------------------------------------------------------------ specifications
\* async_setup_entry in the order of its statements: the catalog is loaded,
\* each person's store is loaded, the migration is called and returns, the
\* services are registered
SetupOrder == <<CATALOG>> \o PersonList \o <<"migrate", "migrated", "services">>

\* async_setup_entry has returned: the services are registered
SetupDone ==
  [pc |-> "done", services |-> TRUE, storages |-> <<>>, log |-> SetupOrder,
   calls |-> 0]

\* async_setup at its call of the migration, the stores loaded
SetupLoaded ==
  [pc |-> "migrate", services |-> FALSE, storages |-> <<>>,
   log |-> <<CATALOG>> \o PersonList, calls |-> 0]

\* no save_data thread runs
NoWriters == [s \in Stores |-> <<>>]

\* the state after setup on a fresh installation: nothing loaded, the
\* migration ran over no records and left its flag
Init ==
  /\ medications = <<>>
  /\ records = [p \in Persons |-> <<>>]
  /\ files = [s \in Stores |-> {}]
  /\ migration_flag = TRUE
  /\ saving = [s \in Stores |-> [backup |-> 0, write |-> 0]]
  /\ uuid = 0
  /\ mig = MigrationIdle(FALSE)
  /\ last = [op |-> "setup", outcome |-> "ok"]
  /\ setup = SetupDone
  /\ notified = <<>>
  /\ writers = NoWriters

\* a step of a service or of a store called after setup: the migration is
\* over, and the behaviour is kept within the bounds
Bounded(max_uuid) ==
  /\ uuid' <= max_uuid
  /\ InFlightOf(saving') <= MaxInFlight
  /\ UNCHANGED <<mig, setup>>
  /\ Quiet

Backup == \E s \in Stores : BackupDone(s) /\ UNCHANGED <<mig, setup>> /\ Quiet
Write == \E s \in Stores : WriteDone(s) /\ UNCHANGED <<mig, setup, writers>>

\* ---- the service surface: the four mutating handlers, called in any order
\* ---- and overlapping at the awaits of the saves
AddOrUpdateRecordService ==
  \E person_id \in PersonInputs, id \in {None} \cup Generated(uuid),
     medication_id \in OptionalInputs(uuid) :
    /\ handle_add_or_update(person_id, id, "2024-01-01T10:00:00", None,
                            medication_id, None, None)
    /\ Bounded(MaxServiceUuid)

DeleteRecordService ==
  \E person_id \in PersonInputs, id \in {"ghost"} \cup Generated(uuid) :
    handle_delete_record(person_id, id) /\ Bounded(MaxServiceUuid)

AddOrUpdateMedicationService ==
  \E id \in OptionalInputs(uuid), name \in Names :
    /\ handle_add_or_update_medication(id, name, None, FALSE, None)
    /\ Bounded(MaxServiceUuid)

DeleteMedicationService ==
  \E id \in StringInputs(uuid) :
    handle_delete_medication(id) /\ Bounded(MaxServiceUuid)

Next ==
  \/ AddOrUpdateRecordService
  \/ DeleteRecordService
  \/ AddOrUpdateMedicationService
  \/ DeleteMedicationService
  \/ Backup
  \/ Write

Spec == Init /\ [][Next]_vars

\* ---- the four mutating handlers with requests that fail validation among
\* ---- those that pass: one known and one unknown person, known and unknown
\* ---- ids
Handled ==
  /\ uuid' <= MaxHandlerUuid
  /\ InFlightOf(saving') <= MaxHandlerInFlight
  /\ UNCHANGED <<mig, setup>>
  /\ Quiet

HandlerAddOrUpdateRecord ==
  \E person_id \in {"person.a", "person.x"},
     medication_id \in {None, "ghost"} \cup Generated(uuid) :
    /\ handle_add_or_update(person_id, None, "2024-01-01T10:00:00", None,
                            medication_id, None, None)
    /\ Handled

HandlerDeleteRecord ==
  \E person_id \in {"person.a", "person.x"}, id \in {"ghost"} \cup Generated(uuid) :
    handle_delete_record(person_id, id) /\ Handled

HandlerAddOrUpdateMedication ==
  \E id \in {None, "ghost"} \cup Generated(uuid), name \in Names :
    handle_add_or_update_medication(id, name, None, FALSE, None) /\ Handled

HandlerDeleteMedication ==
  \E id \in {"ghost"} \cup Generated(uuid) :
    handle_delete_medication(id) /\ Handled

HandlerNext ==
  \/ HandlerAddOrUpdateRecord
  \/ HandlerDeleteRecord
  \/ HandlerAddOrUpdateMedication
  \/ HandlerDeleteMedication
  \/ Backup
  \/ Write

HandlerSpec == Init /\ [][HandlerNext]_vars

\* ---- the catalog store called directly; no record store is written, so the
\* ---- usage check always answers false
CatalogAddOrUpdate ==
  \E id \in OptionalInputs(uuid), name \in Names, d \in MedicationPayloads :
    /\ async_add_or_update_medication(id, name, d.units, d.is_antipyretic,
                                      d.active_ingredient)
    /\ Bounded(MaxUuid)

CatalogDelete ==
  \E id \in StringInputs(uuid) :
    async_delete_medication(id) /\ Bounded(MaxUuid)

CatalogCreateFromName ==
  \E name \in Names :
    async_create_medication_from_name(name) /\ Bounded(MaxUuid)

CatalogNext ==
  \/ CatalogAddOrUpdate
  \/ CatalogDelete
  \/ CatalogCreateFromName
  \/ Backup
  \/ Write

CatalogSpec == Init /\ [][CatalogNext]_vars

\* ---- the catalog store with coordinator.is_medication_in_use as the usage
\* ---- check, while records of both stores come and go so that entries are
\* ---- in use
UsageCreateFromName ==
  \E name \in Names :
    async_create_medication_from_name(name) /\ Bounded(MaxServiceUuid)

UsageDelete ==
  \E id \in StringInputs(uuid) :
    async_delete_medication(id) /\ Bounded(MaxServiceUuid)

UsageRecordAdd ==
  \E p \in Persons, medication_id \in Generated(uuid) :
    /\ async_add_or_update_record(p, None, "2024-01-01T10:00:00", None,
                                  medication_id, "1.0", None)
    /\ Bounded(MaxServiceUuid)

UsageRecordDelete ==
  \E p \in Persons, id \in Generated(uuid) :
    async_delete_record(p, id) /\ Bounded(MaxServiceUuid)

UsageNext ==
  \/ UsageCreateFromName
  \/ UsageDelete
  \/ UsageRecordAdd
  \/ UsageRecordDelete
  \/ Backup
  \/ Write

UsageSpec == Init /\ [][UsageNext]_vars

\* ---- one record store called directly
RecordAddOrUpdate ==
  \E id \in OptionalInputs(uuid), d \in RecordPayloads :
    /\ async_add_or_update_record("person.a", id, d.datetime, d.temperature,
          d.medication_id, d.medication_amount, d.note)
    /\ Bounded(MaxUuid)

RecordDelete ==
  \E id \in StringInputs(uuid) :
    async_delete_record("person.a", id) /\ Bounded(MaxUuid)

RecordNext ==
  \/ RecordAddOrUpdate
  \/ RecordDelete
  \/ Backup
  \/ Write

RecordSpec == Init /\ [][RecordNext]_vars

\* ---- one record store over a backing file of any content, loaded (and
\* ---- loaded again) while it is used
\* what the backing file of a store of entity p may hold before a load
FileInputs(p) ==
  { {},
    {NotJson},
    {NotUtf8},
    {JsonArray(<<>>)},
    {JsonObject([records |-> JsonArray(<<>>)])},
    {JsonObject([entity |-> JsonString("person.x"), records |-> JsonArray(<<>>)])},
    {JsonObject([entity |-> JsonString(p),
                 records |-> json_dump_list(
                    <<new_record("r1", "2024-01-01T10:00:00", "38.5", None,
                                 "1.0", None)>>)])} }

LoadInit ==
  /\ medications = <<>>
  /\ records = [p \in Persons |-> <<>>]
  /\ \E file \in FileInputs("person.a") :
        files = [s \in Stores |-> IF s = "person.a" THEN file ELSE {}]
  /\ migration_flag = TRUE
  /\ saving = [s \in Stores |-> [backup |-> 0, write |-> 0]]
  /\ uuid = 0
  /\ mig = MigrationIdle(FALSE)
  /\ last = [op |-> "setup", outcome |-> "ok"]
  /\ setup = SetupDone
  /\ notified = <<>>
  /\ writers = NoWriters

Load == StorageLoad("person.a") /\ UNCHANGED <<mig, setup>> /\ Quiet

LoadAddOrUpdate ==
  \E id \in {None} \cup Generated(uuid) :
    /\ async_add_or_update_record("person.a", id, "2024-01-02T08:30:00", None,
                                  None, "1.0", "after lunch")
    /\ Bounded(MaxServiceUuid)

LoadNext ==
  \/ Load
  \/ LoadAddOrUpdate
  \/ RecordDelete
  \/ Backup
  \/ Write

LoadSpec == LoadInit /\ [][LoadNext]_vars

\* ---- a record store and the catalog, called directly, with backup copies
\* ---- and primary writes that may raise OSError
FaultRecordAdd ==
  \E id \in {None} \cup Generated(uuid) :
    /\ async_add_or_update_record("person.a", id, "2024-01-01T10:00:00", None,
                                  None, "1.0", None)
    /\ Bounded(MaxServiceUuid)

FaultRecordDelete ==
  \E id \in Generated(uuid) :
    async_delete_record("person.a", id) /\ Bounded(MaxServiceUuid)

FaultMedicationAdd ==
  \E id \in {None} \cup Generated(uuid), name \in Names :
    /\ async_add_or_update_medication(id, name, None, FALSE, None)
    /\ Bounded(MaxServiceUuid)

FaultMedicationDelete ==
  \E id \in Generated(uuid) :
    async_delete_medication(id) /\ Bounded(MaxServiceUuid)

BackupFails == \E s \in Stores : BackupFailed(s) /\ UNCHANGED <<mig, setup>> /\ Quiet
WriteFails == \E s \in Stores : WriteFailed(s) /\ UNCHANGED <<mig, setup>> /\ Quiet

FaultNext ==
  \/ FaultRecordAdd
  \/ FaultRecordDelete
  \/ FaultMedicationAdd
  \/ FaultMedicationDelete
  \/ Backup
  \/ BackupFails
  \/ Write
  \/ WriteFails

FaultSpec == Init /\ [][FaultNext]_vars

\* ---- the migration, run (and run again) over what setup loaded
\* a record as written before medications had ids
legacy_record(id, medication) ==
  [id |-> id, datetime |-> "2023-12-24T18:00:00", temperature |-> "37.2",
   medication |-> medication, note |-> None]

\* what a record store may hold when the migration starts
LoadedRecords ==
  { <<>>,
    <<legacy_record("r1", "Aspirin")>>,
    <<legacy_record("r2", "Ibalgin"), legacy_record("r1", "Aspirin")>>,
    <<legacy_record("r2", ""), legacy_record("r1", None)>>,
    <<new_record("r1", "2024-01-01T10:00:00", None, "m1", "1.0", None)>> }

\* what the catalog may hold then
LoadedMedications ==
  { <<>>,
    <<[id |-> "m1", name |-> "Aspirin", units |-> "tablets",
       is_antipyretic |-> TRUE, active_ingredient |-> None]>> }

MigrationInit ==
  /\ medications \in LoadedMedications
  /\ records \in [Persons -> LoadedRecords]
  /\ \A p \in Persons : \A i \in 1..Len(records[p]) :
        Get(records[p][i], "medication_id") = None
        \/ medication_exists(medications, Get(records[p][i], "medication_id"))
  /\ files = [s \in Stores |-> {Document(s, medications, records)}]
  /\ migration_flag \in BOOLEAN
  /\ saving = [s \in Stores |-> [backup |-> 0, write |-> 0]]
  /\ uuid = 0
  /\ mig = MigrationIdle(FALSE)
             @@ [loaded |-> [medications |-> medications, records |-> records],
                 restarts |-> 0]
  /\ last = [op |-> "setup", outcome |-> "ok"]
  /\ setup = SetupLoaded
  /\ notified = <<>>
  /\ writers = NoWriters

MigrationNext ==
  \/ MigrateBegin /\ UNCHANGED setup
  \/ MigrateName /\ UNCHANGED setup
  \/ MigrateStorage /\ UNCHANGED setup
  \/ MigrateFlag /\ UNCHANGED setup
  \/ Backup
  \/ Write

MigrationSpec == MigrationInit /\ [][MigrationNext]_vars

\* ---- the migration over what setup loaded, no flag yet, cut short by a
\* ---- stop of the process or by a failing save and started again by the
\* ---- next setup; every step of the program that can be taken is taken
RecoveryInit == MigrationInit /\ ~ migration_flag

RecoveryNext ==
  \/ MigrateBegin /\ UNCHANGED setup
  \/ MigrateName /\ UNCHANGED setup
  \/ MigrateStorage /\ UNCHANGED setup
  \/ MigrateFlag /\ UNCHANGED setup
  \/ MigrateSaveFails /\ UNCHANGED setup
  \/ Backup
  \/ Write
  \/ Stop /\ UNCHANGED setup
  \/ Setup /\ UNCHANGED setup

RecoverySpec ==
  /\ RecoveryInit
  /\ [][RecoveryNext]_vars
  /\ WF_vars(MigrateBegin /\ UNCHANGED setup)
  /\ WF_vars(MigrateName /\ UNCHANGED setup)
  /\ WF_vars(MigrateStorage /\ UNCHANGED setup)
  /\ WF_vars(MigrateFlag /\ UNCHANGED setup)
  /\ WF_vars(Backup) /\ WF_vars(Write)
  /\ WF_vars(Setup /\ UNCHANGED setup)

\* ---- async_setup_entry from the start of the process to the registered
\* ---- services, over the files an earlier version left, then service calls;
\* ---- the process may stop anywhere and start again
\* what MedicationStorage.async_load raises to its caller, None when it
\* returns: the structure is tested with isinstance before it is used
async_load_medications_raises(file) ==
  IF file = {} THEN None
  ELSE LET content == CHOOSE c \in file : TRUE
       IN  IF load_data_raises(content) = "JSONDecodeError" THEN None
           ELSE load_data_raises(content)

\* the process starts and the platform calls async_setup_entry: a new
\* coordinator with no storages, and no service registered
SetupEntry ==
  /\ setup.pc \in {"stopped", "failed"}
  /\ setup' = [pc |-> "load_catalog", services |-> FALSE, storages |-> PersonList,
               log |-> <<>>, calls |-> 0]
  /\ medications' = <<>>
  /\ records' = [p \in Persons |-> <<>>]
  /\ mig' = MigrationIdle(FALSE) @@ mig
  /\ last' = [op |-> "setup", outcome |-> "started"]
  /\ UNCHANGED <<files, migration_flag, saving, uuid>>
  /\ Quiet

\* async_setup: the catalog store is made and loaded
SetupLoadCatalog ==
  /\ setup.pc = "load_catalog"
  /\ medications' = async_load_medications(files[CATALOG], <<>>)
  /\ IF async_load_medications_raises(files[CATALOG]) # None
     THEN /\ setup' = [setup EXCEPT !.pc = "failed"]
          /\ last' = [op |-> "load",
                      outcome |-> async_load_medications_raises(files[CATALOG])]
     ELSE /\ setup' = [setup EXCEPT !.pc = "load_persons",
                                    !.log = Append(@, CATALOG)]
          /\ last' = [op |-> "load", outcome |-> "ok"]
  /\ UNCHANGED <<records, files, migration_flag, saving, uuid, mig>>
  /\ Quiet

\* _async_setup_person_storages, one round of its loop: the store of the next
\* person is made and loaded
SetupLoadPerson ==
  /\ setup.pc = "load_persons"
  /\ LET p == Head(setup.storages)
     IN  /\ records' = [records EXCEPT ![p] =
                          async_load(p, files[p], EmptyData(p)).records]
         /\ IF async_load_raises(files[p]) # None
            THEN /\ setup' = [setup EXCEPT !.pc = "failed"]
                 /\ last' = [op |-> "load", outcome |-> async_load_raises(files[p])]
            ELSE /\ setup' = [setup EXCEPT
                                !.pc = IF Tail(setup.storages) = <<>> THEN "migrate"
                                       ELSE "load_persons",
                                !.storages = Tail(@),
                                !.log = Append(@, p)]
                 /\ last' = [op |-> "load", outcome |-> "ok"]
  /\ UNCHANGED <<medications, files, migration_flag, saving, uuid, mig>>
  /\ Quiet

\* async_setup calls _async_migrate_medications, which returns at once when
\* it finds the flag
SetupMigrate ==
  /\ setup.pc = "migrate"
  /\ MigrateBegin
  /\ setup' = [setup EXCEPT
                 !.pc = IF migration_flag THEN "register" ELSE "migrating",
                 !.log = IF migration_flag THEN @ \o <<"migrate", "migrated">>
                         ELSE Append(@, "migrate")]

SetupMigrateName == setup.pc = "migrating" /\ MigrateName /\ UNCHANGED setup

SetupMigrateStorage == setup.pc = "migrating" /\ MigrateStorage /\ UNCHANGED setup

\* the migration returns, and async_setup with it
SetupMigrateFlag ==
  /\ setup.pc = "migrating"
  /\ MigrateFlag
  /\ setup' = [setup EXCEPT !.pc = "register", !.log = Append(@, "migrated")]

\* a save of the migration raises: the exception leaves async_setup and
\* async_setup_entry
SetupMigrateSaveFails ==
  /\ setup.pc = "migrating"
  /\ mig.restarts < MaxSetupStops
  /\ MigrateSaveFails
  /\ setup' = [setup EXCEPT !.pc = "failed"]

\* Mutant of SetupServices: the services are registered before the migration
\* is called.
SetupServices_early ==
  /\ setup.pc = "migrate"
  /\ ~ setup.services
  /\ setup' = [setup EXCEPT !.services = TRUE]
  /\ last' = [op |-> "setup", outcome |-> "ok"]
  /\ UNCHANGED <<medications, records, files, migration_flag, saving, uuid, mig>>
  /\ Quiet

\* the first refresh (which returns the storages), then async_setup_services:
\* the eight handlers are registered, with no await between them
SetupServices ==
  /\ setup.pc = "register"
  /\ setup' = [setup EXCEPT !.pc = "done", !.services = TRUE,
                            !.log = Append(@, "services")]
  /\ last' = [op |-> "setup", outcome |-> "ok"]
  /\ UNCHANGED <<medications, records, files, migration_flag, saving, uuid, mig>>
  /\ Quiet

\* the platform hands a call to the handler registered for the service
Served ==
  /\ setup.services
  /\ setup.calls < MaxSetupCalls
  /\ setup' = [setup EXCEPT !.calls = @ + 1]
  /\ uuid' <= MaxSetupUuid
  /\ InFlightOf(saving') <= MaxHandlerInFlight
  /\ UNCHANGED mig
  /\ Quiet

ServeAddOrUpdateRecord ==
  \E medication_id \in {None, "ghost", "m1"} :
    /\ handle_add_or_update("person.a", None, "2024-01-01T10:00:00", None,
                            medication_id, None, None)
    /\ Served

ServeDeleteRecord ==
  \E id \in {"r1", "ghost"} : handle_delete_record("person.b", id) /\ Served

ServeAddOrUpdateMedication ==
  \E id \in {None, "m1"} :
    handle_add_or_update_medication(id, "Ibalgin", "ml", TRUE, None) /\ Served

ServeDeleteMedication ==
  \E id \in {"m1", "u1"} : handle_delete_medication(id) /\ Served

\* the four handlers that answer from memory: get_records, get_person_list,
\* get_medications, get_medication
ServeGet ==
  \E op \in {"get_records", "get_person_list", "get_medications", "get_medication"} :
    /\ last' = [op |-> op, outcome |-> "ok"]
    /\ UNCHANGED <<medications, records, files, migration_flag, saving, uuid>>
    /\ Served

\* the process stops: the registered services go with it
SetupStop ==
  /\ mig.restarts < MaxSetupStops
  /\ Stop
  /\ setup' = [setup EXCEPT !.pc = "stopped", !.services = FALSE]

SetupInit ==
  /\ \E meds \in LoadedMedications, recs \in [Persons -> LoadedRecords] :
        /\ Len(recs["person.b"]) <= 1
        /\ \A p \in Persons : \A i \in 1..Len(recs[p]) :
              Get(recs[p][i], "medication_id") = None
              \/ medication_exists(meds, Get(recs[p][i], "medication_id"))
        /\ files = [s \in Stores |-> {Document(s, meds, recs)}]
        /\ mig = [MigrationIdle(FALSE) EXCEPT !.pc = "stopped"]
                   @@ [loaded |-> [medications |-> meds, records |-> recs],
                       restarts |-> 0]
  /\ medications = <<>>
  /\ records = [p \in Persons |-> <<>>]
  /\ migration_flag = FALSE
  /\ saving = [s \in Stores |-> [backup |-> 0, write |-> 0]]
  /\ uuid = 0
  /\ last = [op |-> "stop", outcome |-> "ok"]
  /\ setup = [pc |-> "stopped", services |-> FALSE, storages |-> <<>>,
              log |-> <<>>, calls |-> 0]
  /\ notified = <<>>
  /\ writers = NoWriters

SetupNext ==
  \/ SetupEntry
  \/ SetupLoadCatalog
  \/ SetupLoadPerson
  \/ SetupMigrate
  \/ SetupMigrateName
  \/ SetupMigrateStorage
  \/ SetupMigrateFlag
  \/ SetupMigrateSaveFails
  \/ SetupServices
  \/ ServeAddOrUpdateRecord
  \/ ServeDeleteRecord
  \/ ServeAddOrUpdateMedication
  \/ ServeDeleteMedication
  \/ ServeGet
  \/ Backup
  \/ Write
  \/ SetupStop

SetupSpec == SetupInit /\ [][SetupNext]_vars

\* ---- both record stores written with datetimes in any order, and the
\* ---- person list asked for in between
ListAddOrUpdate ==
  \E p \in Persons, id \in {None} \cup Generated(uuid),
     record_datetime \in Range(StringOrder) :
    /\ handle_add_or_update(p, id, record_datetime, None, None, None, None)
    /\ Handled

ListDelete ==
  \E p \in Persons, id \in Generated(uuid) :
    handle_delete_record(p, id) /\ Handled

\* handle_get_person_list: the response, or the exception that is not an
\* OSError and leaves the handler
GetPersonList ==
  /\ last' = IF get_person_list_raises(records) # None
             THEN [op |-> "get_person_list",
                   outcome |-> get_person_list_raises(records)]
             ELSE [op |-> "get_person_list", outcome |-> "ok",
                   persons |-> get_person_list(records)]
  /\ UNCHANGED <<medications, records, files, migration_flag, saving, uuid>>
  /\ UNCHANGED <<mig, setup>>
  /\ Quiet

PersonListNext ==
  \/ ListAddOrUpdate
  \/ ListDelete
  \/ GetPersonList
  \/ Backup
  \/ Write

PersonListSpec == Init /\ [][PersonListNext]_vars

\* ---- one record store whose saves overlap, each primary write a thread
\* ---- that opens the file, dumps the document and closes the file
RaceAddOrUpdate ==
  \E id \in {None} \cup Generated(uuid) :
    /\ async_add_or_update_record("person.a", id, "2024-01-01T10:00:00", None,
                                  None, "1.0", None)
    /\ Bounded(MaxServiceUuid)

RaceDelete ==
  \E id \in Generated(uuid) :
    async_delete_record("person.a", id) /\ Bounded(MaxServiceUuid)

Opens == \E s \in Stores : WriteOpens(s) /\ UNCHANGED <<mig, setup>>
Dumps == \E s \in Stores : WriteDumps(s) /\ UNCHANGED <<mig, setup>>
Closes == \E s \in Stores : WriteCloses(s) /\ UNCHANGED <<mig, setup>>

RaceNext ==
  \/ RaceAddOrUpdate
  \/ RaceDelete
  \/ Backup
  \/ Opens
  \/ Dumps
  \/ Closes

RaceSpec == Init /\ [][RaceNext]_vars

\* ---- the four mutating handlers with primary writes that may raise
\* ---- OSError; the process may stop after any step, and a restart reads
\* ---- the files as they are then
CrashNext ==
  \/ HandlerAddOrUpdateRecord
  \/ HandlerDeleteRecord
  \/ HandlerAddOrUpdateMedication
  \/ HandlerDeleteMedication
  \/ Backup
  \/ Write
  \/ WriteFails

CrashSpec == Init /\ [][CrashNext]_vars

\* ================================================================ properties
Ids(list) == [i \in 1..Len(list) |-> Get(list[i], "id")]
IdSet(list) == {Get(list[i], "id") : i \in 1..Len(list)}
HasId(list, id) == \E i \in 1..Len(list) : list[i].id = id

\* ---------------------------------------------------------------- RecordSpec
RecordRequestFields(rec_datetime, temperature, medication_id, medication_amount, note) ==
  [datetime |-> rec_datetime, temperature |-> temperature,
   medication_id |-> medication_id, medication_amount |-> medication_amount,
   note |-> note]

\* what C5 asks of one addOrUpdate step on store p
AddOrUpdatePost(p, id, fields) ==
  LET old == records[p]
      new == records'[p]
  IN  IF HasId(old, id)
      THEN \E i \in 1..Len(old) :
             /\ old[i].id = id
             /\ Len(new) = Len(old)
             /\ new[i] = SetKeys(fields, [id |-> id])
             /\ \A j \in 1..Len(old) : j # i => new[j] = old[j]
      ELSE /\ Len(new) = Len(old) + 1
           /\ new[1].id # id
           /\ new[1].id \notin IdSet(old) \cup Generated(uuid)
           /\ new[1] = SetKeys(fields, [id |-> new[1].id])
           /\ \A j \in 1..Len(old) : new[j + 1] = old[j]

\* C5: an addOrUpdate of a record store with the id of an existing record
\* overwrites that record's fields in place (same id, same index, same count);
\* with an id that is None or matches nothing it inserts exactly one record
\* with a fresh id, never the supplied one, at index 0 and keeps the others
\* in their order.
C5_AddOrUpdateRecord ==
  [][\A p \in Persons, id \in OptionalInputs(uuid), d \in RecordPayloads :
       (/\ last'.op = "add_or_update_record"
        /\ async_add_or_update_record(p, id, d.datetime, d.temperature,
              d.medication_id, d.medication_amount, d.note))
       => AddOrUpdatePost(p, id,
            RecordRequestFields(d.datetime, d.temperature, d.medication_id,
                                d.medication_amount, d.note))]_vars

\* both cases happened: the scenario of the spec, an insert at the front of a
\* non-empty store and then an update of the record that is not at the front
C5_Witness ==
  /\ last = [op |-> "add_or_update_record", outcome |-> "updated"]
  /\ Len(records["person.a"]) = 2
  /\ records["person.a"][1].datetime = "2024-01-01T10:00:00"
  /\ records["person.a"][2].datetime = "2024-01-02T08:30:00"
  /\ records["person.a"][2].id = "u1"

\* C6: deleting an id no record of the store has raises the not-found error
\* and leaves the record list as it was; no save starts, so the file is not
\* rewritten, no backup is made and the change callback does not run.
C6_DeleteRecordNotFound ==
  [][\A p \in Persons, id \in StringInputs(uuid) :
       (async_delete_record(p, id) /\ ~ HasId(records[p], id))
       => /\ last' = [op |-> "delete_record", outcome |-> "not_found"]
          /\ records' = records
          /\ files' = files
          /\ saving' = saving]_vars

\* a delete missed in a store that holds a record and has a file
C6_Witness ==
  /\ last = [op |-> "delete_record", outcome |-> "not_found"]
  /\ Len(records["person.a"]) > 0
  /\ files["person.a"] # {}

UniqueIds(list) ==
  \A i, j \in 1..Len(list) : i # j => list[i].id # list[j].id

\* a step keeps every record's id: the ids are the same sequence, or one new
\* id came in front, or all records of one id went away
IdsKept(old, new) ==
  \/ Ids(new) = Ids(old)
  \/ /\ Len(new) = Len(old) + 1
     /\ new[1].id \notin IdSet(old)
     /\ Ids(new) = <<new[1].id>> \o Ids(old)
  \/ \E id \in IdSet(old) :
       Ids(new) = SelectSeq(Ids(old), LAMBDA x : x # id)

\* C7: within one record store no two records share an id, and no step of
\* addOrUpdate or delete changes the id of a record that stays.
C7_RecordIdsUnique ==
  [][\A p \in Persons :
       UniqueIds(records'[p]) /\ IdsKept(records[p], records'[p])]_vars

\* a store that saw a record deleted, another created, and one updated
C7_Witness ==
  /\ last = [op |-> "add_or_update_record", outcome |-> "updated"]
  /\ Len(records["person.a"]) = 2
  /\ uuid = 3

\* --------------------------------------------------------------- CatalogSpec
Referenced(medication_id) ==
  \E p \in Persons : \E i \in 1..Len(records[p]) :
     /\ "medication_id" \in DOMAIN records[p][i]
     /\ records[p][i].medication_id = medication_id

\* C1: no two catalog entries have the same name.
C1_NamesUnique ==
  \A i, j \in 1..Len(medications) :
     i # j => medications[i].name # medications[j].name

\* two entries, a colliding call just refused while a save is suspended
C1_Witness ==
  /\ Len(medications) = 2
  /\ last = [op |-> "add_or_update_medication", outcome |-> "duplicate_name"]
  /\ InFlightOf(saving) > 0

\* C3: deleting an entry that a record of some store references raises the
\* in-use error and changes neither the catalog nor its file, and starts no
\* save; the usage check answers true exactly when such a record exists.
C3_DeleteBlocked ==
  [][\A id \in StringInputs(uuid) :
       (last'.op = "delete_medication" /\ async_delete_medication(id))
       => /\ (last'.outcome = "in_use") <=> Referenced(id)
          /\ (HasId(medications, id) /\ Referenced(id))
             => /\ medications' = medications
                /\ files' = files
                /\ saving' = saving]_vars

\* a delete refused for an entry that is saved and referenced
C3_Witness ==
  /\ last = [op |-> "delete_medication", outcome |-> "in_use"]
  /\ files[CATALOG] # {}
  /\ \E i \in 1..Len(medications) : Referenced(medications[i].id)

\* C8: an addOrUpdate whose name is the name of another entry raises the
\* duplicate-name error, whatever the id (also one no entry has), and leaves
\* catalog, file and saves as they were; an update that keeps the entry's own
\* name goes through.
C8_DuplicateName ==
  [][\A id \in OptionalInputs(uuid), name \in Names :
       LET other == \E i \in 1..Len(medications) :
                      medications[i].name = name /\ medications[i].id # id
           own == \E i \in 1..Len(medications) :
                    medications[i].name = name /\ medications[i].id = id
       IN  (last'.op = "add_or_update_medication" /\ (other \/ own))
           => \A d \in MedicationPayloads :
                async_add_or_update_medication(id, name, d.units,
                   d.is_antipyretic, d.active_ingredient)
                => /\ other => /\ last'.outcome = "duplicate_name"
                               /\ medications' = medications
                               /\ files' = files
                               /\ saving' = saving
                               /\ uuid' = uuid
                   /\ own => last'.outcome = "updated"]_vars

\* a collision refused with two entries in the catalog
C8_Witness ==
  /\ last = [op |-> "add_or_update_medication", outcome |-> "duplicate_name"]
  /\ Len(medications) = 2
  /\ files[CATALOG] # {}

\* C9 as claimed: with an id given (any string) and a name that collides with
\* nothing, the call updates the entry of that id in place or, when no entry
\* has the id, raises not-found and creates nothing.
C9_IdGivenNeverCreates ==
  [][\A id \in StringInputs(uuid), name \in Names, d \in MedicationPayloads :
       (/\ last'.op = "add_or_update_medication"
        /\ async_add_or_update_medication(id, name, d.units, d.is_antipyretic,
                                          d.active_ingredient)
        /\ ~ \E i \in 1..Len(medications) :
               medications[i].name = name /\ medications[i].id # id)
       => IF HasId(medications, id)
          THEN /\ last'.outcome = "updated"
               /\ Ids(medications') = Ids(medications)
          ELSE /\ last'.outcome = "not_found"
               /\ medications' = medications
               /\ saving' = saving]_vars

\* ---------------------------------------------------------------------- Spec
\* C2 as claimed: a request whose medication_id is given and is the id of no
\* catalog entry changes no record store and starts no save.
C2_UnknownMedicationRejected ==
  [][\A person_id \in PersonInputs, id \in {None} \cup Generated(uuid),
        medication_id \in StringInputs(uuid) :
       (/\ handle_add_or_update(person_id, id, "2024-01-01T10:00:00", None,
                                medication_id, None, None)
        /\ ~ HasId(medications, medication_id))
       => /\ records' = records
          /\ saving' = saving
          /\ files' = files]_vars

\* C4 as claimed: every record's medication_id is None or the id of a
\* catalog entry.
C4_ReferentialIntegrity ==
  \A p \in Persons : \A i \in 1..Len(records[p]) :
     \/ records[p][i].medication_id = None
     \/ HasId(medications, records[p][i].medication_id)

\* ------------------------------------------------------------- MigrationSpec
\* C10: a run of the migration that finds the flag changes nothing: no
\* catalog entry, no record, no file, no save, not the flag, whatever the
\* records still hold; a run that reaches its end leaves the flag, and the
\* flag is never removed, so the run after a completed run is such a no-op
\* and two runs in a row end where one run ends.
C10_IdempotentMigration ==
  [][/\ (last'.op = "migrate" /\ last'.outcome # "complete" /\ migration_flag)
        => /\ last'.outcome = "skipped"
           /\ UNCHANGED <<medications, records, files, migration_flag, saving,
                          uuid, mig>>
     /\ (last'.op = "migrate" /\ last'.outcome = "complete") => migration_flag'
     /\ migration_flag => migration_flag']_vars

\* a second run skipped after a first one that created an entry and
\* rewrote a store
C10_Witness ==
  /\ last = [op |-> "migrate", outcome |-> "skipped"]
  /\ mig.ran
  /\ uuid > 0
  /\ \E p \in Persons : \E i \in 1..Len(records[p]) :
        Truthy(Get(records[p][i], "medication_id"))

\* ------------------------------------------------------ RecordSpec, LoadSpec
\* C14: when a save of a record store has written the file, a fresh store of
\* the same entity that loads the file holds the saved record list (same
\* records, fields and order) and the load raises nothing; a fresh store of
\* another entity that loads the same file holds no records.
C14_RoundTrip ==
  [][\A p \in Persons :
       (last'.op = "write" /\ WriteDone(p))
       => /\ async_load_raises(files'[p]) = None
          /\ async_load(p, files'[p], EmptyData(p)) = [entity |-> p, records |-> records'[p]]
          /\ \A q \in PersonInputs \ {p} :
                async_load(q, files'[p], EmptyData(q)) = EmptyData(q)]_vars

\* a save just wrote two records, one with a temperature and a note, one
\* with none
C14_Witness ==
  /\ last = [op |-> "write", outcome |-> "ok"]
  /\ Len(records["person.a"]) = 2
  /\ files["person.a"] = {Document("person.a", medications, records)}
  /\ \E i, j \in 1..2 : /\ records["person.a"][i].temperature = "38.5"
                        /\ records["person.a"][j].temperature = None

\* C15 as claimed: whatever the file holds and whatever the store held, a
\* load raises nothing and leaves the file alone, and unless the file is a
\* document of this entity the store holds no records afterwards.
C15_DefensiveLoad ==
  [][(last'.op = "load" /\ StorageLoad("person.a"))
       => /\ last'.outcome = "ok"
          /\ files' = files
          /\ (\/ files["person.a"] = {}
              \/ \E c \in files["person.a"] :
                    \/ c.json # "object"
                    \/ "entity" \notin DOMAIN c.members
                    \/ c.members.entity # JsonString("person.a"))
             => records'["person.a"] = <<>>]_vars

\* ------------------------------------------------------------- MigrationSpec
\* what a restart would read from the files
PersistedRecords ==
  [p \in Persons |-> async_load(p, files[p], EmptyData(p)).records]
PersistedMedications == async_load_medications(files[CATALOG], <<>>)

NoLegacyField(recstores) ==
  \A p \in Persons : \A i \in 1..Len(recstores[p]) :
     "medication" \notin DOMAIN recstores[p][i]

ReferencesHold(recstores, meds) ==
  \A p \in Persons : \A i \in 1..Len(recstores[p]) :
     \/ Get(recstores[p][i], "medication_id") = None
     \/ medication_exists(meds, Get(recstores[p][i], "medication_id"))

MigrationComplete == last = [op |-> "migrate", outcome |-> "complete"]

\* C11: when a run that began without the flag has reached its end, every
\* record of every store has a medication_id that is None or the id of a
\* catalog entry and none has the old medication field, in memory and in
\* the files.
C11_IntegrityAfterMigration ==
  MigrationComplete
  => /\ NoLegacyField(records)
     /\ ReferencesHold(records, medications)
     /\ NoLegacyField(PersistedRecords)
     /\ ReferencesHold(PersistedRecords, PersistedMedications)

\* a run ended that created an entry and left a reference to it in a file
C11_Witness ==
  /\ MigrationComplete
  /\ uuid > 0
  /\ \E p \in Persons : \E i \in 1..Len(PersistedRecords[p]) :
        PersistedRecords[p][i].medication_id = "u1"

\* the entry of the catalog meds that has this name, 0 if there is none
EntryNamed(meds, name) == FirstIndex(meds, "name", name)

\* the catalog and the records are what the migration makes of the loaded
\* catalog and records L: the loaded entries stay as they are and in front,
\* behind them one minimal entry per old name that no loaded entry has;
\* each record keeps its place and its other fields, loses the old field
\* and refers to the entry of its old name, or to None if that was empty
MigrationResult(L) ==
  LET names == collect_medication_names(L.records)
      added == {n \in names : EntryNamed(L.medications, n) = 0}
  IN  /\ Len(medications) = Len(L.medications) + Cardinality(added)
      /\ SubSeq(medications, 1, Len(L.medications)) = L.medications
      /\ \A n \in added :
            /\ EntryNamed(medications, n) > Len(L.medications)
            /\ \E id \in Generated(uuid) :
                  medications[EntryNamed(medications, n)] =
                     [id |-> id, name |-> n, units |-> None,
                      is_antipyretic |-> FALSE, active_ingredient |-> None]
      /\ \A i, j \in 1..Len(medications) :
            i # j => /\ medications[i].name # medications[j].name
                     /\ medications[i].id # medications[j].id
      /\ \A p \in Persons :
            /\ Len(records[p]) = Len(L.records[p])
            /\ \A i \in 1..Len(records[p]) :
                  LET old == L.records[p][i]
                      new == records[p][i]
                  IN  IF "medication" \in DOMAIN old
                      THEN /\ DOMAIN new = (DOMAIN old \ {"medication"})
                                              \cup {"medication_id"}
                           /\ \A k \in DOMAIN old \ {"medication", "medication_id"} :
                                 new[k] = old[k]
                           /\ IF Truthy(old.medication)
                              THEN /\ EntryNamed(medications, old.medication) # 0
                                   /\ new.medication_id =
                                        medications[EntryNamed(medications,
                                                       old.medication)].id
                              ELSE new.medication_id = None
                      ELSE new = old

\* C12: after a run the catalog holds exactly one entry per old name found
\* in any store, a loaded entry of that name being reused and the other
\* entries unchanged; every record that had the name refers to that entry,
\* a record whose old value was empty refers to None, and the other fields
\* and the order of the records are as loaded.
C12_MigrationMapping ==
  MigrationComplete => MigrationResult(mig.loaded)

\* a run ended over two stores that shared the name of a loaded entry and
\* had another name besides
C12_Witness ==
  /\ MigrationComplete
  /\ Len(mig.loaded.medications) = 1
  /\ Len(medications) = 2
  /\ \A p \in Persons :
        \E i \in 1..Len(mig.loaded.records[p]) :
           Get(mig.loaded.records[p][i], "medication") = "Aspirin"
  /\ \A p \in Persons : \E i \in 1..Len(records[p]) :
        records[p][i].medication_id = "m1"

C20_FlagLast ==
  /\ [](migration_flag
         => /\ NoLegacyField(PersistedRecords)
            /\ \A n \in collect_medication_names(mig.loaded.records) :
                  EntryNamed(PersistedMedications, n) # 0)
  /\ [][/\ (~ migration_flag /\ migration_flag')
           => /\ last' = [op |-> "migrate", outcome |-> "complete"]
              /\ mig.pc = "names"
              /\ InFlightOf(saving) = 0
        /\ (last'.outcome = "failed" \/ mig.pc = "failed")
           => ~ migration_flag']_vars

\* the flag is present after a run in which a save raised and a later run
\* that rewrote a store
C20_Witness ==
  /\ migration_flag
  /\ mig.restarts > 0
  /\ uuid > 0
  /\ \E p \in Persons : \E i \in 1..Len(PersistedRecords[p]) :
        Truthy(PersistedRecords[p][i].medication_id)
  /\ \E p \in Persons : needs_save(mig.loaded.records[p])

\* ------------------------------------------------------------------ FaultSpec
InFlight(s) == saving[s].backup + saving[s].write

\* C17: in both stores a backup copy that fails does not end the save: the
\* save goes on to the primary write, which puts the current document in
\* the file and runs the callback; a backup is attempted only when the file
\* exists, the first save goes straight to the write; a primary write that
\* fails raises OSError out of the save and leaves the file alone.
C17_BackupBestEffort ==
  [][\A s \in Stores :
       /\ (last'.op = "backup" /\ BackupFailed(s))
          => /\ last'.outcome = "suppressed"
             /\ saving'[s] = [backup |-> saving[s].backup - 1,
                              write |-> saving[s].write + 1]
             /\ files' = files
       /\ (last' = [op |-> "write", outcome |-> "ok"] /\ WriteDone(s))
          => files'[s] = {Document(s, medications', records')}
       /\ (last'.op \notin {"backup", "write"} /\ saving'[s] # saving[s])
          => saving'[s] = IF files[s] # {}
                          THEN [saving[s] EXCEPT !.backup = @ + 1]
                          ELSE [saving[s] EXCEPT !.write = @ + 1]
       /\ (last'.op = "write" /\ last'.outcome # "ok" /\ WriteFailed(s))
          => /\ last'.outcome = "OSError"
             /\ files' = files
             /\ InFlight(s)' = InFlight(s) - 1]_vars

\* a backup copy of the catalog file just failed and its save waits at the
\* primary write, the file still without the entry the save is about
C17_Witness ==
  /\ last = [op |-> "backup", outcome |-> "suppressed"]
  /\ saving[CATALOG].write > 0
  /\ files[CATALOG] # {}
  /\ files[CATALOG] # {Document(CATALOG, medications, records)}

\* C19 as claimed: whenever no save of a store is under way, what the store
\* holds in memory is what its file holds (nothing, if there is no file).
C19_MemoryIsPersisted ==
  /\ \A p \in Persons : InFlight(p) = 0 => records[p] = PersistedRecords[p]
  /\ InFlight(CATALOG) = 0 => medications = PersistedMedications

\* ----------------------------------------------------------------- RecordSpec
\* C18 as claimed: while a save of a store is under way, no step changes the
\* document of that store or starts another save of it.
C18_NoInterleaving ==
  [][\A s \in Stores :
       InFlight(s) > 0
       => /\ Document(s, medications', records') = Document(s, medications, records)
          /\ InFlight(s)' <= InFlight(s)]_vars

\* ---------------------------------------------------------------- HandlerSpec
\* the ways a service call fails validation
ValidationFailures ==
  {"no_storage", "unknown_medication", "duplicate_name", "not_found", "in_use"}

\* C16: a service call that fails validation (unknown person, unknown
\* medication reference, duplicate name, id not found on a medication update
\* or on a delete, medication in use) raises nothing to the platform and
\* leaves catalog, record stores, files and saves as they were.
C16_FailuresContained ==
  [][last'.outcome \in ValidationFailures
       => /\ ~ handler_raises(last'.op, last'.outcome)
          /\ UNCHANGED <<medications, records, files, migration_flag, saving,
                         uuid>>]_vars

\* a delete of a medication was refused as in use, with files written
C16_Witness ==
  /\ last = [op |-> "delete_medication", outcome |-> "in_use"]
  /\ files[CATALOG] # {}
  /\ files["person.a"] # {}

\* ------------------------------------------------------------------ SetupSpec
IsPrefix(a, b) == Len(a) <= Len(b) /\ SubSeq(b, 1, Len(a)) = a

C22_SavePerStore ==
  /\ [](\A p \in Persons :
          ~ needs_save(mig.loaded.records[p])
          => /\ files[p] = {Document(p, mig.loaded.medications, mig.loaded.records)}
             /\ InFlight(p) = 0
             /\ on_change_callback(p) \notin Range(notified))
  /\ [](MigrationComplete
         => \A p \in Persons :
               needs_save(mig.loaded.records[p])
               => /\ files[p] = {Document(p, medications, records)}
                  /\ files[p] # {Document(p, mig.loaded.medications,
                                          mig.loaded.records)}
                  /\ InFlight(p) = 0)
  /\ [][\A p \in Persons :
          /\ InFlight(p)' > InFlight(p)
             => /\ last' = [op |-> "migrate_storage", outcome |-> "saved"]
                /\ mig.storages # <<>>
                /\ Head(mig.storages) = p
                /\ needs_save(records[p])
                /\ ~ needs_save(records'[p])
                /\ InFlight(p) = 0
                /\ InFlight(p)' = 1
                /\ p \notin Range(mig'.storages)
          /\ (/\ last'.op = "migrate_storage"
              /\ Head(mig.storages) = p
              /\ ~ needs_save(records[p]))
             => /\ last'.outcome = "clean"
                /\ UNCHANGED <<records, files, saving>>
                /\ notified' = <<>>]_vars

\* a run ended that rewrote and saved the store of one person and left alone
\* the store of the other, which holds a record
C22_Witness ==
  /\ MigrationComplete
  /\ needs_save(mig.loaded.records["person.a"])
  /\ Len(mig.loaded.records["person.a"]) = 2
  /\ ~ needs_save(mig.loaded.records["person.b"])
  /\ Len(records["person.b"]) = 1
  /\ files["person.b"] = {Document("person.b", medications, mig.loaded.records)}

\* ------------------------------------------------------------------ FaultSpec
\* C23: a step calls on_change_callback exactly when it is the completed
\* primary write of a save, and then exactly once, after the file has the
\* document, with the entity of the store if it is a record store and with
\* no argument if it is the catalog; a call of a store method that raised
\* before saving, a backup copy and a primary write that raised call nothing.
C23_CallbackAfterWrite ==
  [][/\ (notified' # <<>>) <=> (last' = [op |-> "write", outcome |-> "ok"])
     /\ \A s \in Stores :
          (last' = [op |-> "write", outcome |-> "ok"]
           /\ saving'[s].write < saving[s].write)
          => /\ files'[s] = {Document(s, medications', records')}
             /\ notified' = <<IF s = CATALOG THEN <<>> ELSE <<s>>>>
     /\ (\/ last'.outcome \in {"duplicate_name", "not_found", "in_use",
                               "OSError", "suppressed"}
         \/ last'.op # "write")
        => notified' = <<>>]_vars

\* the catalog has just called its callback, after a write of the record
\* store raised and left its record in memory only
C23_Witness ==
  /\ last = [op |-> "write", outcome |-> "ok"]
  /\ notified = << <<>> >>
  /\ files[CATALOG] = {Document(CATALOG, medications, records)}
  /\ Len(medications) > 0
  /\ InFlight("person.a") = 0
  /\ Len(records["person.a"]) > 0
  /\ files["person.a"] = {}

\* ---------------------------------------------------------------- CatalogSpec
\* the entries of the catalog meds that have this name
Named(meds, name) == {i \in 1..Len(meds) : meds[i].name = name}

\* C24: a call of createFromName with the name of an entry returns the id of
\* that entry and changes nothing and saves nothing; with a name no entry
\* has it appends one entry of that name with no units, not antipyretic and
\* no active ingredient, under an id not used before, starts a save of the
\* catalog and returns that id.  Either way one entry has the name afterwards,
\* and a call repeated with the same name returns the same id and changes
\* nothing.
C24_CreateFromName ==
  [][\A name \in Names :
       (/\ last'.op \in {"create_medication_from_name", "add_or_update_medication"}
        /\ async_create_medication_from_name(name))
       => LET id == create_medication_from_name_returns(medications, name,
                                                        uuid4(uuid))
          IN  /\ IF Named(medications, name) # {}
                 THEN /\ \A i \in Named(medications, name) : medications[i].id = id
                      /\ UNCHANGED <<medications, files, saving, uuid>>
                 ELSE /\ medications' = Append(medications,
                           [id |-> id, name |-> name, units |-> None,
                            is_antipyretic |-> FALSE, active_ingredient |-> None])
                      /\ id \notin IdSet(medications) \cup Generated(uuid)
                      /\ InFlight(CATALOG)' = InFlight(CATALOG) + 1
                      /\ files' = files
              /\ Cardinality(Named(medications', name)) = 1
              /\ create_medication_from_name_returns(medications', name,
                                                     uuid4(uuid')) = id]_vars

\* a call found the entry that an earlier call had created, in a catalog of
\* two entries
C24_Witness ==
  /\ last = [op |-> "create_medication_from_name", outcome |-> "found"]
  /\ Len(medications) = 2
  /\ \E i \in 1..2 : medications[i] = [id |-> "u2", name |-> "Ibalgin", units |-> None,
                                       is_antipyretic |-> FALSE,
                                       active_ingredient |-> None]

\* -------------------------------------------------------------- MigrationSpec
\* C25 as claimed: every record whose medication_id is not None has a
\* medication_amount, and it is a number.
C25_AmountWithMedication ==
  \A p \in Persons : \A i \in 1..Len(records[p]) :
     Get(records[p][i], "medication_id") # None
     => /\ "medication_amount" \in DOMAIN records[p][i]
        /\ records[p][i].medication_amount # None

\* ------------------------------------------------------------- PersonListSpec
\* C26: a call of getPersonList raises nothing, changes no store, file or
\* save, and answers with one element per tracked person, each person once:
\* the element of a person with no records has no record, the element of any
\* other person has a record of that person's store such that no record of
\* the store has a greater datetime as strings.
C26_PersonList ==
  [][last'.op = "get_person_list"
       => /\ last'.outcome = "ok"
          /\ UNCHANGED <<medications, records, files, migration_flag, saving, uuid>>
          /\ Len(last'.persons) = Cardinality(Persons)
          /\ \A p \in Persons :
               \E i \in 1..Len(last'.persons) :
                  /\ last'.persons[i].entity = p
                  /\ \A j \in 1..Len(last'.persons) :
                        last'.persons[j].entity = p => j = i
                  /\ IF records[p] = <<>>
                     THEN last'.persons[i].recent_record = None
                     ELSE /\ last'.persons[i].recent_record \in Range(records[p])
                          /\ \A k \in 1..Len(records[p]) :
                                ~ str_lt(last'.persons[i].recent_record.datetime,
                                         records[p][k].datetime)]_vars

\* the list was asked for with one person's latest record behind an older
\* one that was added later, and the other person without records
C26_Witness ==
  /\ last.op = "get_person_list"
  /\ last.outcome = "ok"
  /\ Len(records["person.a"]) = 2
  /\ str_lt(records["person.a"][1].datetime, records["person.a"][2].datetime)
  /\ last.persons[1].recent_record = records["person.a"][2]
  /\ records["person.b"] = <<>>

\* ------------------------------------------------------------------- RaceSpec
\* C27 as claimed: when no save of a store is under way, the file of the
\* store holds the document the store has in memory (or there is no file and
\* the store holds nothing).
C27_DiskConverges ==
  \A p \in Persons :
     InFlight(p) = 0
     => \/ files[p] = {Document(p, medications, records)}
        \/ files[p] = {} /\ records[p] = <<>>

\* ------------------------------------------------------------------ CrashSpec
\* C28 as claimed: at every point, what a restart would load from the files
\* has in every record a medication_id that is None or the id of a loaded
\* catalog entry.
C28_PersistedReferences ==
  ReferencesHold(PersistedRecords, PersistedMedications)

====
